---- MODULE Spec2Model ----
(***************************************************************************)
(* vemigrate: a directory-based schema-migration engine.                   *)
(*                                                                         *)
(* The model follows vemigrate/src/lib.rs (the Migrator: script parser,    *)
(* history reconciler, migration selector, execution orchestrator), the    *)
(* command dispatch of vemigrate-cli/src/main.rs and the history store of  *)
(* vemigrate-cli/src/store/scylla_store.rs.                                *)
(*                                                                         *)
(* Text is modelled as sequences of one-character strings, a script file   *)
(* as the sequence of its lines, a directory as the sequence of entries    *)
(* that read_dir yields (in an arbitrary order).  Every call the engine    *)
(* makes on the store (get_all, exec, add) is one step, so that a store    *)
(* failure can strike at any call and two engines can interleave.          *)
(***************************************************************************)
EXTENDS Integers, Sequences, FiniteSets, TLC

VARIABLES dirs, storeKind, rows, mig, ops, fails

vars == <<dirs, storeKind, rows, mig, ops, fails>>

(***************************************************************************)
(* Bounds of the model.                                                    *)
(***************************************************************************)
\* migration ids are 1..MaxId
MaxId == 3
\* migrate_up_n / migrate_down_n are called with n in 0..MaxCount
MaxCount == 3
\* at most MaxOps commands are started in one behaviour
MaxOps == 2
\* at most MaxFails store calls fail in one behaviour
MaxFails == 1
\* the script files of the parser runs have at most MaxLines lines
MaxLines == 3
\* the history tables of the reconciler runs hold at most MaxEvents rows
MaxEvents == 3

Ids == 1..MaxId

\* the engines; Spec runs the first one alone
Procs == {1, 2}

(***************************************************************************)
(* Program constants, lib.rs:12-18.                                        *)
(***************************************************************************)
COMMENT_LENGTH == 2
COMMENT_LINE_TYPE_1 == <<"-", "-">>
COMMENT_LINE_TYPE_2 == <<"/", "/">>
QUERIES_SEPARATOR == ";"

(***************************************************************************)
(* Text helpers.                                                           *)
(***************************************************************************)
Last(s) == s[Len(s)]

\* char::is_whitespace, for the characters that occur in the model
IsWhitespace(c) == c \in {" ", "\t", "\r", "\n"}

RECURSIVE TrimStart(_)
TrimStart(s) ==
    IF s = <<>> THEN <<>>
    ELSE IF IsWhitespace(Head(s)) THEN TrimStart(Tail(s)) ELSE s

RECURSIVE TrimEnd(_)
TrimEnd(s) ==
    IF s = <<>> THEN <<>>
    ELSE IF IsWhitespace(Last(s)) THEN TrimEnd(SubSeq(s, 1, Len(s) - 1)) ELSE s

\* str::trim
Trim(s) == TrimEnd(TrimStart(s))

(***************************************************************************)
(* Script parser.                                                          *)
(***************************************************************************)
\* fn is_cql_comment_line: slices the first COMMENT_LENGTH bytes of the line
\* (a panic when the line is shorter) and compares them with the two
\* comment markers.  "panic", "yes" or "no".
is_cql_comment_line(line) ==
    IF Len(line) < COMMENT_LENGTH THEN "panic"
    ELSE LET comment_slice == SubSeq(line, 1, COMMENT_LENGTH)
         IN  IF comment_slice = COMMENT_LINE_TYPE_1 \/ comment_slice = COMMENT_LINE_TYPE_2
             THEN "yes" ELSE "no"

\* the read_line loop of parse_cql_file from line i on, with the statements
\* collected so far and the is_new_query flag
RECURSIVE ParseLoop(_, _, _, _)
ParseLoop(lines, i, queries, is_new_query) ==
    IF i > Len(lines) THEN [kind |-> "ok", queries |-> queries]
    ELSE LET trimmed == Trim(lines[i]) IN
         IF trimmed = <<>> THEN ParseLoop(lines, i + 1, queries, is_new_query)
         ELSE LET c == is_cql_comment_line(trimmed) IN
              IF c = "panic" THEN [kind |-> "panic", queries |-> <<>>]
              ELSE IF c = "yes" THEN ParseLoop(lines, i + 1, queries, is_new_query)
              ELSE LET q1 == IF is_new_query THEN Append(queries, <<>>) ELSE queries
                       q2 == IF q1 = <<>> THEN <<trimmed>>
                             ELSE [q1 EXCEPT ![Len(q1)] = @ \o trimmed]
                   IN  ParseLoop(lines, i + 1, q2, Last(trimmed) = QUERIES_SEPARATOR)

\* a file that does not exist
NoFile == [exists |-> FALSE, lines |-> <<>>]
File(lines) == [exists |-> TRUE, lines |-> lines]

\* Migrator::parse_cql_file: "io" (File::open failed), "panic", "none"
\* (Ok(None): no statement found) or "ok" with the statements
parse_cql_file(file) ==
    IF ~file.exists THEN [kind |-> "io", queries |-> <<>>]
    ELSE LET r == ParseLoop(file.lines, 1, <<>>, FALSE) IN
         IF r.kind = "ok" /\ r.queries = <<>> THEN [kind |-> "none", queries |-> <<>>]
         ELSE r

(***************************************************************************)
(* Migrations directory.                                                   *)
(***************************************************************************)
Digits == <<"0", "1", "2", "3", "4", "5", "6", "7", "8", "9">>
IsDigit(c) == \E i \in 1..Len(Digits) : Digits[i] = c
DigitVal(c) == (CHOOSE i \in 1..Len(Digits) : Digits[i] = c) - 1

\* name.splitn(2, '_').next(): the text before the first '_'
RECURSIVE timestamp_prefix(_)
timestamp_prefix(name) ==
    IF name = <<>> \/ Head(name) = "_" THEN <<>>
    ELSE <<Head(name)>> \o timestamp_prefix(Tail(name))

RECURSIVE DecimalValue(_, _)
DecimalValue(s, acc) ==
    IF s = <<>> THEN acc ELSE DecimalValue(Tail(s), 10 * acc + DigitVal(Head(s)))

\* str::parse::<u64>, for the prefixes of the model (no sign, no overflow):
\* Ok(value) for a non-empty string of digits, Err otherwise
parse_u64(s) ==
    IF s /= <<>> /\ \A i \in 1..Len(s) : IsDigit(s[i])
    THEN [ok |-> TRUE, v |-> DecimalValue(s, 0)]
    ELSE [ok |-> FALSE, v |-> 0]

(***************************************************************************)
(* History store.  rows is the content of the history table, one record    *)
(* [id, up] per row.  storeKind tells which Store the Migrator was built   *)
(* with: "scylla" is ScyllaStore, "log" an append-only in-memory store.    *)
(***************************************************************************)
Event(id, up) == [id |-> id, up |-> up]

GetAllNone == [some |-> FALSE, rows |-> <<>>]
GetAllSome(r) == [some |-> TRUE, rows |-> r]

RECURSIVE WithoutId(_, _)
WithoutId(r, id) ==
    IF r = <<>> THEN <<>>
    ELSE IF Head(r).id = id THEN WithoutId(Tail(r), id)
    ELSE <<Head(r)>> \o WithoutId(Tail(r), id)

\* ScyllaStore::get_all: None when the keyspace or the table holds no row
ScyllaGetAll(r) == IF r = <<>> THEN GetAllNone ELSE GetAllSome(r)

\* ScyllaStore::add: "insert into migrations (id,up) values (?, ?)" on the
\* table of initial_migration_up, whose primary key is id: the insert
\* replaces the row of the same id
ScyllaAdd(r, id, up) == Append(WithoutId(r, id), Event(id, up))

\* the append-only store: one row per event, no uniqueness constraint
LogGetAll(r) == GetAllSome(r)
LogAdd(r, id, up) == Append(r, Event(id, up))

\* Store::get_all and Store::add of the store in use
get_all(kind, r) == IF kind = "scylla" THEN ScyllaGetAll(r) ELSE LogGetAll(r)
add(kind, r, id, up) == IF kind = "scylla" THEN ScyllaAdd(r, id, up) ELSE LogAdd(r, id, up)

(***************************************************************************)
(* History reconciler.                                                     *)
(***************************************************************************)
\* a closure that keeps the last event of an id instead of counting
FoldStep_LastWins(acc, m) ==
    LET increment == IF m.up THEN 1 ELSE -1 IN
    [k \in DOMAIN acc \cup {m.id} |-> IF k = m.id THEN increment ELSE acc[k]]

\* the closure folded over the rows: +1 for an up row, -1 for a down row,
\* on the entry of the row's id (inserted when vacant)
FoldStep(acc, m) ==
    LET increment == IF m.up THEN 1 ELSE -1 IN
    IF m.id \in DOMAIN acc
    THEN [acc EXCEPT ![m.id] = @ + increment]
    ELSE [k \in DOMAIN acc \cup {m.id} |-> IF k = m.id THEN increment ELSE acc[k]]

RECURSIVE Fold(_, _)
Fold(migrations, acc) ==
    IF migrations = <<>> THEN acc
    ELSE Fold(Tail(migrations), FoldStep(acc, Head(migrations)))

EmptyMap == [k \in {} |-> 0]

\* a reconciler that takes an absent history for every id applied
get_migration_history_AbsentIsApplied(got) ==
    IF got.some THEN Fold(got.rows, EmptyMap) ELSE [k \in Ids |-> 1]

\* Migrator::get_migration_history, on the result of get_all
get_migration_history(got) ==
    IF got.some THEN Fold(got.rows, EmptyMap) ELSE EmptyMap

\* *history.get(&timestamp).unwrap_or(&0)
Counter(history, timestamp) ==
    IF timestamp \in DOMAIN history THEN history[timestamp] ELSE 0

\* the net state of id in the history table as the next invocation reads it
NetState(id) == Counter(get_migration_history(get_all(storeKind, rows)), id)

(***************************************************************************)
(* Migration selector.                                                     *)
(***************************************************************************)
\* an up-eligibility that does not look at the counter
Eligible_UpWhatever(counter, up) == up \/ (~up /\ counter = 1)

\* an up-eligibility that only leaves out the applied ids
Eligible_NotApplied(counter, up) == (up /\ counter /= 1) \/ (~up /\ counter = 1)

\* a down-eligibility that takes every positive counter for applied
Eligible_AnyPositive(counter, up) == (up /\ counter = 0) \/ (~up /\ counter >= 1)

\* the closure of filter_map: is the entry of timestamp id a candidate
Eligible(counter, up) == (up /\ counter = 0) \/ (~up /\ counter = 1)

\* the lazy iterator chain of filter_migrations up to collect(), from entry
\* i on: directories only, numeric prefix only, eligible only, each parsed;
\* the first error ends the collection
RECURSIVE Collect(_, _, _, _, _)
Collect(entries, i, history, up, acc) ==
    IF i > Len(entries) THEN [kind |-> "ok", res |-> acc, path |-> <<>>]
    ELSE LET elem == entries[i]
             ts   == parse_u64(timestamp_prefix(elem.name))
         IN
         IF ~elem.isDir \/ ~ts.ok \/ ~Eligible(Counter(history, ts.v), up)
         THEN Collect(entries, i + 1, history, up, acc)
         ELSE LET parsed == parse_cql_file(IF up THEN elem.up ELSE elem.down) IN
              CASE parsed.kind = "ok" ->
                       Collect(entries, i + 1, history, up,
                               Append(acc, [id |-> ts.v, queries |-> parsed.queries]))
                [] parsed.kind = "none" ->
                       [kind |-> "ErrParse", res |-> <<>>, path |-> elem.name]
                [] parsed.kind = "io" ->
                       [kind |-> "ErrIo", res |-> <<>>, path |-> elem.name]
                [] OTHER ->
                       [kind |-> "Panic", res |-> <<>>, path |-> elem.name]

\* a comparator that forgets the direction
StaysBefore_Descending(a, b, up) == a.id >= b.id

\* the comparator of sort_by: does a stay before b (ascending timestamps
\* for up, descending for down; equal timestamps keep their order)
StaysBefore(a, b, up) == IF up THEN a.id <= b.id ELSE a.id >= b.id

\* slice::sort_by is stable: each element goes behind those that stay before it
RECURSIVE SortBy(_, _, _)
SortBy(res, acc, up) ==
    IF res = <<>> THEN acc
    ELSE LET x == Head(res)
             k == Cardinality({j \in 1..Len(acc) : StaysBefore(acc[j], x, up)})
         IN  SortBy(Tail(res),
                    SubSeq(acc, 1, k) \o <<x>> \o SubSeq(acc, k + 1, Len(acc)), up)

\* a selection that skips a script without statement instead of failing
filter_migrations_SkipsBlank(entries, history, up) ==
    LET Keep(e) == ~e.isDir \/ parse_cql_file(IF up THEN e.up ELSE e.down).kind /= "none"
        c == Collect(SelectSeq(entries, Keep), 1, history, up, <<>>)
    IN  IF c.kind /= "ok" THEN c
        ELSE [c EXCEPT !.res = SortBy(c.res, <<>>, up)]

\* Migrator::filter_migrations: an error, or the sorted candidates
\* (res = <<>> stands for Ok(None))
filter_migrations(entries, history, up) ==
    LET c == Collect(entries, 1, history, up, <<>>) IN
    IF c.kind /= "ok" THEN c
    ELSE [c EXCEPT !.res = SortBy(c.res, <<>>, up)]

(***************************************************************************)
(* Execution orchestrator.                                                 *)
(***************************************************************************)
None == [some |-> FALSE, v |-> 0]
Some(v) == [some |-> TRUE, v |-> v]

\* a match that forgets the count
LastIdTakeN_IgnoresN(migration_to_execute, n) ==
    [last_id |-> Last(migration_to_execute).id, take_n |-> Len(migration_to_execute)]

\* the (last_id, take_n) match of execute_migrations
LastIdTakeN(migration_to_execute, n) ==
    IF n.some
    THEN IF Len(migration_to_execute) > n.v
         THEN [last_id |-> migration_to_execute[n.v + 1].id, take_n |-> n.v]
         ELSE [last_id |-> Last(migration_to_execute).id,
               take_n |-> Len(migration_to_execute)]
    ELSE [last_id |-> Last(migration_to_execute).id,
          take_n |-> Len(migration_to_execute)]

\* a history switch that forgets the direction
AddHistory_PartialOnly(up, take_n, len) == take_n /= len

\* a history switch that is always on
AddHistory_Always(up, take_n, len) == TRUE

\* let add_history = up || take_n != migration_to_execute.len()
AddHistory(up, take_n, len) == up \/ take_n /= len

\* Result<Option<u64>> of a call, "none" while there is none yet
NoResult == [kind |-> "none", id |-> 0, path |-> <<>>]
OkNone == [kind |-> "OkNone", id |-> 0, path |-> <<>>]
OkSome(id) == [kind |-> "OkSome", id |-> id, path |-> <<>>]
Failure(kind, path) == [kind |-> kind, id |-> 0, path |-> path]

\* one call on the store, as the trace of an engine records it
ExecCall(id, q, ok) == [call |-> "exec", id |-> id, q |-> q, up |-> FALSE, ok |-> ok]
AddCall(id, up, ok) == [call |-> "add", id |-> id, q |-> <<>>, up |-> up, ok |-> ok]

\* an invocation of the command line before its command runs.  Besides the
\* locals of the call in progress the record keeps what the call did: the
\* rows of the table when it started (before), the rows get_all returned
\* (seen), the counters reconciled from them (history), the calls it made on the store (trace) and, for redo, the outcome
\* of the rollback and the rows it started from (first).  past is kept over
\* the invocations of a series: the calls made on the store so far and the
\* number of migrations asked for so far.
Fresh ==
    [pc |-> "start", cmd |-> "none", up |-> FALSE, n |-> None,
     cands |-> <<>>, take_n |-> 0, idx |-> 0, qi |-> 0,
     add_history |-> FALSE, last_id |-> 0, history |-> EmptyMap,
     result |-> NoResult, trace |-> <<>>, seen |-> <<>>, before |-> <<>>,
     first |-> [result |-> NoResult, trace |-> <<>>, before |-> <<>>],
     past |-> [trace |-> <<>>, asked |-> 0]]

\* a redo that goes on to migrate_up_n(1) after any successful rollback call
Return_RedoAfterNone(m, res) ==
    IF m.cmd = "redo" /\ ~m.up /\ res.kind \in {"OkSome", "OkNone"}
    THEN [m EXCEPT !.pc = "redo_up", !.result = res,
                   !.first = [result |-> res, trace |-> m.trace, before |-> m.before]]
    ELSE [m EXCEPT !.pc = "exit", !.result = res]

\* the call returns res.  main's CMD_REDO arm goes on to migrate_up_n(1)
\* when its migrate_down_n(1) returned Ok(Some(_)); every other arm ends.
Return(m, res) ==
    IF m.cmd = "redo" /\ ~m.up /\ res.kind = "OkSome"
    THEN [m EXCEPT !.pc = "redo_up", !.result = res,
                   !.first = [result |-> res, trace |-> m.trace, before |-> m.before]]
    ELSE [m EXCEPT !.pc = "exit", !.result = res]

\* Migrator::execute_migrations up to the first call on the store
execute_migrations(m, migration_to_execute, up, n) ==
    LET h == LastIdTakeN(migration_to_execute, n)
        m1 == [m EXCEPT !.cands = migration_to_execute,
                        !.take_n = h.take_n, !.last_id = h.last_id,
                        !.add_history = AddHistory(up, h.take_n, Len(migration_to_execute)),
                        !.idx = 1, !.qi = 0]
    IN  IF h.take_n = 0 THEN Return(m1, OkSome(h.last_id))
        ELSE [m1 EXCEPT !.pc = "run"]

\* a migrate_n that takes an empty selection for a failure
migrate_n_EmptyIsError(m, up, n, got) ==
    LET m0 == [m EXCEPT !.up = up, !.n = n, !.trace = <<>>, !.seen = got.rows,
                        !.before = rows, !.history = get_migration_history(got),
                        !.cands = <<>>, !.take_n = 0, !.idx = 0, !.qi = 0]
        f  == filter_migrations(dirs, m0.history, up)
    IN  IF f.kind /= "ok" THEN Return(m0, Failure(f.kind, f.path))
        ELSE IF f.res = <<>> THEN Return(m0, Failure("ErrParse", <<>>))
        ELSE execute_migrations(m0, f.res, up, n)

\* Migrator::migrate_n once get_all has answered got
migrate_n(m, up, n, got) ==
    LET m0 == [m EXCEPT !.up = up, !.n = n, !.trace = <<>>, !.seen = got.rows,
                        !.before = rows, !.history = get_migration_history(got),
                        !.cands = <<>>, !.take_n = 0, !.idx = 0, !.qi = 0]
        f  == filter_migrations(dirs, m0.history, up)
    IN  IF f.kind /= "ok" THEN Return(m0, Failure(f.kind, f.path))
        ELSE IF f.res = <<>> THEN Return(m0, OkNone)
        ELSE execute_migrations(m0, f.res, up, n)

\* Migrator::migrate_n when get_all fails
migrate_n_store_error(m, up, n) ==
    Return([m EXCEPT !.up = up, !.n = n, !.trace = <<>>, !.seen = <<>>,
                     !.before = rows, !.history = EmptyMap,
                     !.cands = <<>>, !.take_n = 0, !.idx = 0, !.qi = 0],
           Failure("ErrStore", <<>>))

\* the commands of the command line with the call each one starts with
Commands == {"migrate", "reset", "do", "undo", "redo"}
CmdUp(c) == c \in {"migrate", "do"}
CmdN(c, n) == IF c \in {"migrate", "reset"} THEN None
              ELSE IF c = "redo" THEN Some(1) ELSE Some(n)

\* the loop of execute_migrations moves on from a finished candidate
NextCandidate(m) ==
    IF m.idx = m.take_n THEN Return(m, OkSome(m.last_id))
    ELSE [m EXCEPT !.idx = m.idx + 1, !.qi = 0]

Current(m) == m.cands[m.idx]
ExecPending(m) == m.pc = "run" /\ m.qi < Len(Current(m).queries)

\* an add that does not wait for the last statement
AddPending_Early(m) == m.pc = "run" /\ m.qi >= 1 /\ m.add_history

AddPending(m) == m.pc = "run" /\ m.qi = Len(Current(m).queries) /\ m.add_history

(***************************************************************************)
(* Actions.                                                                *)
(***************************************************************************)
\* main: the command c (with count n for do and undo) starts; get_all answers
Command(p, c, n) ==
    /\ mig[p].pc = "start"
    /\ mig' = [mig EXCEPT ![p] = migrate_n([@ EXCEPT !.cmd = c], CmdUp(c), CmdN(c, n),
                                           get_all(storeKind, rows))]
    /\ UNCHANGED <<dirs, storeKind, rows, ops, fails>>

\* main: the command c starts; get_all fails
CommandGetAllFails(p, c, n) ==
    /\ mig[p].pc = "start"
    /\ fails < MaxFails
    /\ fails' = fails + 1
    /\ mig' = [mig EXCEPT ![p] = migrate_n_store_error([@ EXCEPT !.cmd = c],
                                                       CmdUp(c), CmdN(c, n))]
    /\ UNCHANGED <<dirs, storeKind, rows, ops>>

\* main, CMD_REDO: migrate_up_n(1) after the rollback; get_all answers
RedoUp(p) ==
    /\ mig[p].pc = "redo_up"
    /\ mig' = [mig EXCEPT ![p] = migrate_n(@, TRUE, Some(1), get_all(storeKind, rows))]
    /\ UNCHANGED <<dirs, storeKind, rows, ops, fails>>

\* main, CMD_REDO: migrate_up_n(1) after the rollback; get_all fails
RedoUpGetAllFails(p) ==
    /\ mig[p].pc = "redo_up"
    /\ fails < MaxFails
    /\ fails' = fails + 1
    /\ mig' = [mig EXCEPT ![p] = migrate_n_store_error(@, TRUE, Some(1))]
    /\ UNCHANGED <<dirs, storeKind, rows, ops>>

\* migrate_one: the next statement of the current candidate is executed;
\* after the last one of a candidate without history event the loop moves on
Exec(p) ==
    LET m == mig[p] IN
    /\ ExecPending(m)
    /\ LET m1 == [m EXCEPT !.qi = m.qi + 1,
                           !.trace = Append(m.trace,
                               ExecCall(Current(m).id, Current(m).queries[m.qi + 1], TRUE))]
       IN  mig' = [mig EXCEPT ![p] =
                      IF m1.qi = Len(Current(m).queries) /\ ~m.add_history
                      THEN NextCandidate(m1) ELSE m1]
    /\ UNCHANGED <<dirs, storeKind, rows, ops, fails>>

\* an exec whose error is dropped: the loop goes on with the next statement
ExecFails_GoesOn(p) ==
    LET m == mig[p] IN
    /\ ExecPending(m)
    /\ fails < MaxFails
    /\ fails' = fails + 1
    /\ LET m1 == [m EXCEPT !.qi = m.qi + 1,
                           !.trace = Append(m.trace,
                               ExecCall(Current(m).id, Current(m).queries[m.qi + 1], FALSE))]
       IN  mig' = [mig EXCEPT ![p] =
                      IF m1.qi = Len(Current(m).queries) /\ ~m.add_history
                      THEN NextCandidate(m1) ELSE m1]
    /\ UNCHANGED <<dirs, storeKind, rows, ops>>

\* migrate_one: exec fails, the error is returned through execute_migrations
ExecFails(p) ==
    LET m == mig[p] IN
    /\ ExecPending(m)
    /\ fails < MaxFails
    /\ fails' = fails + 1
    /\ mig' = [mig EXCEPT ![p] =
                  Return([m EXCEPT !.trace = Append(m.trace,
                              ExecCall(Current(m).id, Current(m).queries[m.qi + 1], FALSE))],
                         Failure("ErrStore", <<>>))]
    /\ UNCHANGED <<dirs, storeKind, rows, ops>>

\* migrate_one: every statement succeeded, the event is added to the history
Add(p) ==
    LET m == mig[p] IN
    /\ AddPending(m)
    /\ rows' = add(storeKind, rows, Current(m).id, m.up)
    /\ mig' = [mig EXCEPT ![p] =
                  NextCandidate([m EXCEPT !.trace = Append(m.trace,
                                              AddCall(Current(m).id, m.up, TRUE))])]
    /\ UNCHANGED <<dirs, storeKind, ops, fails>>

\* migrate_one: add fails, the error is returned through execute_migrations
AddFails(p) ==
    LET m == mig[p] IN
    /\ AddPending(m)
    /\ fails < MaxFails
    /\ fails' = fails + 1
    /\ mig' = [mig EXCEPT ![p] =
                  Return([m EXCEPT !.trace = Append(m.trace,
                                       AddCall(Current(m).id, m.up, FALSE))],
                         Failure("ErrStore", <<>>))]
    /\ UNCHANGED <<dirs, storeKind, rows, ops>>

(***************************************************************************)
(* The states a command can start from.                                    *)
(***************************************************************************)
IdChar(id) == Digits[id + 1]

\* up.cql of migration id: a comment, a statement over two lines, a blank
\* line, a comment, a last statement without separator
UpLines(id) ==
    << <<"-", "-", " ", "u">>,
       <<" ", "a", IdChar(id)>>,
       <<"b", ";", " ">>,
       <<" ">>,
       <<"/", "/">>,
       <<"c", IdChar(id)>> >>

\* down.cql of migration id: a comment and one statement
DownLines(id) ==
    << <<"/", "/", "d">>,
       <<"d", IdChar(id), ";">> >>

\* the statements of the two scripts, as they are written in the files
UpStatements(id) == << <<"a", IdChar(id), "b", ";">>, <<"c", IdChar(id)>> >>
DownStatements(id) == << <<"d", IdChar(id), ";">> >>

Letters == <<"a", "b", "c", "d", "e", "f", "g", "h">>

\* the directory {id}_{letter}; a blank one is as create_migration_file
\* leaves it without content (up.cql empty, down.cql a comment only)
MigrationDir(id, letter, blank) ==
    [name |-> <<IdChar(id), "_", letter>>, isDir |-> TRUE,
     up   |-> File(IF blank THEN <<>> ELSE UpLines(id)),
     down |-> File(IF blank THEN << <<"-", "-">>, <<" ">> >> ELSE DownLines(id))]

\* the file .gitkeep that create_migrations_dir puts in the migrations root
GitKeep == [name |-> <<".", "g">>, isDir |-> FALSE, up |-> NoFile, down |-> NoFile]

\* a directory that is no migration (no numeric prefix)
Stray == [name |-> <<"x", "_", "1">>, isDir |-> TRUE, up |-> NoFile, down |-> NoFile]

\* the entries read_dir yields for the migrations s[1], s[2], ... (ids in
\* any order, possibly colliding), those of blank without statements
Layout(s, blank) ==
    <<GitKeep>> \o [i \in 1..Len(s) |-> MigrationDir(s[i], Letters[i], s[i] \in blank)]
                \o <<Stray>>

RECURSIVE AscendingIds(_)
AscendingIds(S) ==
    IF S = {} THEN <<>>
    ELSE LET lo == CHOOSE x \in S : \A y \in S : x <= y
         IN  <<lo>> \o AscendingIds(S \ {lo})

Reverse(s) == [i \in 1..Len(s) |-> s[Len(s) + 1 - i]]
Rotate(s) == IF s = <<>> THEN <<>> ELSE Tail(s) \o <<Head(s)>>

\* the orders in which read_dir yields the directories of the ids of S:
\* descending, and ascending from the second id on with the first id last
Orders(S) == {Reverse(AscendingIds(S)), Rotate(AscendingIds(S))}

\* the directories with distinct ids: any set of ids in one of these orders
IdSeqs == UNION {Orders(S) : S \in SUBSET Ids}

\* the migrations roots a command can find: directories with distinct ids
\* of which at most one has scripts without statement, or directories with
\* statements of which the first one listed has a namesake of the same id
Layouts ==
    {Layout(s, blank) : s \in IdSeqs, blank \in {b \in SUBSET Ids : Cardinality(b) <= 1}}
    \cup {Layout(s \o <<Head(s)>>, {}) : s \in IdSeqs \ {<<>>}}

Events == {Event(id, up) : id \in Ids, up \in BOOLEAN}

\* what the history table can hold about one id when a command starts:
\* nothing, an up row, a down row, two up rows, an up row and a down row
StatusRows(id, status) ==
    CASE status = "none"   -> <<>>
      [] status = "up"     -> <<Event(id, TRUE)>>
      [] status = "down"   -> <<Event(id, FALSE)>>
      [] status = "upup"   -> <<Event(id, TRUE), Event(id, TRUE)>>
      [] status = "updown" -> <<Event(id, TRUE), Event(id, FALSE)>>

\* under the primary key of ScyllaStore an id has at most one row
Statuses(kind) ==
    IF kind = "scylla" THEN {"none", "up", "down"}
    ELSE {"none", "up", "upup", "updown"}

\* the rows of the table for the statuses st, from the highest id down
RECURSIVE RowsOf(_, _)
RowsOf(st, id) ==
    IF id = 0 THEN <<>> ELSE StatusRows(id, st[id]) \o RowsOf(st, id - 1)

\* the history tables a command can find: any set of ids applied and the
\* others without row, or one id in another status and the others all
\* applied or all without row
InitRows(kind) ==
    {RowsOf(st, MaxId) :
        st \in {f \in [Ids -> Statuses(kind)] :
                   \/ \A i \in Ids : f[i] \in {"none", "up"}
                   \/ \E i \in Ids : \E other \in {"none", "up"} :
                         \A j \in Ids \ {i} : f[j] = other}}

Init ==
    /\ dirs \in Layouts
    /\ storeKind \in {"log", "scylla"}
    /\ rows \in InitRows(storeKind)
    /\ mig = [p \in Procs |-> Fresh]
    /\ ops = 0
    /\ fails = 0

Counts(c) == IF c \in {"do", "undo"} THEN 0..MaxCount ELSE {0}

\* one invocation of the command line
Next ==
    \/ \E c \in Commands : \E n \in Counts(c) : Command(1, c, n)
    \/ \E c \in Commands : \E n \in Counts(c) : CommandGetAllFails(1, c, n)
    \/ RedoUp(1)
    \/ RedoUpGetAllFails(1)
    \/ Exec(1)
    \/ ExecFails(1)
    \/ Add(1)
    \/ AddFails(1)

Spec == Init /\ [][Next]_vars

\* a later invocation of the command line on the same store and directory
Again(p) ==
    /\ mig[p].pc = "exit"
    /\ ops < MaxOps
    /\ ops' = ops + 1
    /\ mig' = [mig EXCEPT ![p] = Fresh]
    /\ UNCHANGED <<dirs, storeKind, rows, fails>>

\* several invocations in a row, from an empty history and a directory of
\* migrations with distinct ids
InitRuns ==
    /\ dirs \in {Layout(s, {}) : s \in IdSeqs}
    /\ storeKind \in {"log", "scylla"}
    /\ rows = <<>>
    /\ mig = [p \in Procs |-> Fresh]
    /\ ops = 0
    /\ fails = 0

NextRuns == Next \/ Again(1)

SpecRuns == InitRuns /\ [][NextRuns]_vars

(***************************************************************************)
(* The parser on its own: migrate_up over one pending migration whose      *)
(* up.cql is any file of at most MaxLines lines taken from SampleLines.    *)
(***************************************************************************)
\* blank lines, comment lines of both kinds, lines with and without a
\* closing separator, and lines of a single character
SampleLines ==
    { <<>>, <<" ", "\t">>,
      <<"-", "-", "a", ";">>, <<" ", "/", "/">>,
      <<"a", "b">>, <<" ", "c", ";", " ">>, <<"d", ";", "e">>,
      <<"-", "f">>, <<"/", "-", ";">>,
      <<";">>, <<")">>, <<" ", "g", " ">> }

RECURSIVE LineSeqs(_)
LineSeqs(n) ==
    IF n = 0 THEN {<<>>}
    ELSE LET shorter == LineSeqs(n - 1)
         IN  shorter \cup {Append(f, l) : f \in {g \in shorter : Len(g) = n - 1},
                                          l \in SampleLines}

ScriptDir(lines) ==
    [name |-> <<IdChar(1), "_", "a">>, isDir |-> TRUE,
     up |-> File(lines), down |-> File(lines)]

InitParse ==
    /\ dirs \in {<<ScriptDir(lines)>> : lines \in LineSeqs(MaxLines)}
    /\ storeKind = "scylla"
    /\ rows = <<>>
    /\ mig = [p \in Procs |-> Fresh]
    /\ ops = 0
    /\ fails = 0

NextParse ==
    \/ Command(1, "migrate", 0)
    \/ Exec(1)
    \/ Add(1)

SpecParse == InitParse /\ [][NextParse]_vars

(***************************************************************************)
(* The reconciler on its own: migrate_up or migrate_down over a directory  *)
(* of all ids and an append-only history of any rows, in any order.        *)
(***************************************************************************)
RECURSIVE EventSeqs(_)
EventSeqs(n) ==
    IF n = 0 THEN {<<>>}
    ELSE LET shorter == EventSeqs(n - 1)
         IN  shorter \cup {Append(r, e) : r \in {q \in shorter : Len(q) = n - 1},
                                          e \in Events}

InitFold ==
    /\ dirs = Layout(Reverse(AscendingIds(Ids)), {})
    /\ storeKind = "log"
    /\ rows \in EventSeqs(MaxEvents)
    /\ mig = [p \in Procs |-> Fresh]
    /\ ops = 0
    /\ fails = 0

NextFold ==
    \/ \E c \in {"migrate", "reset"} : Command(1, c, 0)
    \/ Exec(1)
    \/ Add(1)

SpecFold == InitFold /\ [][NextFold]_vars

(***************************************************************************)
(* Two engines on the same store and directory, each running migrate_up    *)
(* from an empty history; their calls on the store interleave freely.      *)
(***************************************************************************)
InitRace ==
    /\ dirs \in {Layout(s, {}) : s \in IdSeqs}
    /\ storeKind \in {"log", "scylla"}
    /\ rows = <<>>
    /\ mig = [p \in Procs |-> Fresh]
    /\ ops = 0
    /\ fails = 0

NextRace ==
    \E p \in Procs :
        \/ Command(p, "migrate", 0)
        \/ Exec(p)
        \/ Add(p)

SpecRace == InitRace /\ [][NextRace]_vars

(***************************************************************************)
(* One migration after the other: invocations that all run the same        *)
(* command with count 1 (undo -n 1 from a history of applied migrations,   *)
(* do -n 1 from an empty history), over directories with distinct ids.     *)
(***************************************************************************)
InitSteps ==
    /\ dirs \in {Layout(s, {}) : s \in IdSeqs}
    /\ storeKind \in {"log", "scylla"}
    /\ rows \in {RowsOf(st, MaxId) : st \in [Ids -> {"none", "up"}]}
    /\ mig = [p \in Procs |-> Fresh]
    /\ ops = 0
    /\ fails = 0

\* the next invocation of a series on the same store and directory; the
\* record of the series grows by the call that ended
Resume(p) ==
    LET m == mig[p]
        asked == m.past.asked + (IF m.n.some THEN m.n.v ELSE Len(dirs))
    IN
    /\ m.pc = "exit"
    /\ ops < MaxOps
    /\ ops' = ops + 1
    /\ mig' = [mig EXCEPT ![p] =
                  [Fresh EXCEPT !.past =
                      [trace |-> m.past.trace \o m.trace,
                       asked |-> IF asked < Len(dirs) THEN asked ELSE Len(dirs)]]]
    /\ UNCHANGED <<dirs, storeKind, rows, fails>>

NextDown ==
    \/ Command(1, "undo", 1)
    \/ Exec(1)
    \/ Add(1)
    \/ Again(1)

SpecDown == InitSteps /\ [][NextDown]_vars

NextUp ==
    \/ \E n \in 0..MaxCount : Command(1, "do", n)
    \/ Command(1, "migrate", 0)
    \/ Exec(1)
    \/ Add(1)
    \/ Resume(1)

InitUp == InitSteps /\ storeKind = "log"

SpecUp == InitUp /\ [][NextUp]_vars

(***************************************************************************)
(* What the properties speak about: the directory and the history as they  *)
(* are written, not as the engine reads them.                              *)
(***************************************************************************)
\* the engine whose call the properties observe
M == mig[1]

\* entry e is the directory of migration id
IsDirOf(e, id) == e.isDir /\ Len(e.name) >= 2 /\ e.name[1] = IdChar(id) /\ e.name[2] = "_"

DirIds == {id \in Ids : \E i \in DOMAIN dirs : IsDirOf(dirs[i], id)}

DistinctIds ==
    \A id \in Ids : \A i, j \in DOMAIN dirs :
        IsDirOf(dirs[i], id) /\ IsDirOf(dirs[j], id) => i = j

\* up events minus down events of id among the rows r
Net(r, id) ==
    Cardinality({i \in DOMAIN r : r[i].id = id /\ r[i].up})
        - Cardinality({i \in DOMAIN r : r[i].id = id /\ ~r[i].up})

\* the directory ids that were pending (applied) when the call read the history
Pending == {id \in DirIds : Net(M.seen, id) = 0}
Applied == {id \in DirIds : Net(M.seen, id) = 1}

\* a script without statement: blank lines and comment lines only
IsCommentOrBlank(line) ==
    LET t == Trim(line) IN
    \/ t = <<>>
    \/ Len(t) >= 2 /\ <<t[1], t[2]>> \in {<<"-", "-">>, <<"/", "/">>}
IsBlankFile(file) == \A i \in DOMAIN file.lines : IsCommentOrBlank(file.lines[i])
Script(e, up) == IF up THEN e.up ELSE e.down

\* some directory of an id in S has a script without statement
BlankAmong(S, up) ==
    \E id \in S : \E i \in DOMAIN dirs :
        IsDirOf(dirs[i], id) /\ IsBlankFile(Script(dirs[i], up))

RECURSIVE Ascending(_)
Ascending(S) ==
    IF S = {} THEN <<>>
    ELSE LET lo == CHOOSE x \in S : \A y \in S : x <= y
         IN  <<lo>> \o Ascending(S \ {lo})

RECURSIVE Descending(_)
Descending(S) ==
    IF S = {} THEN <<>>
    ELSE LET hi == CHOOSE x \in S : \A y \in S : x >= y
         IN  <<hi>> \o Descending(S \ {hi})

Take(L, n) == SubSeq(L, 1, IF n < Len(L) THEN n ELSE Len(L))

Statements(id, up) == IF up THEN UpStatements(id) ELSE DownStatements(id)

\* the exec calls that run the scripts of the ids of L, one script after the other
RECURSIVE ScriptRuns(_, _)
ScriptRuns(L, up) ==
    IF L = <<>> THEN <<>>
    ELSE [k \in 1..Len(Statements(Head(L), up)) |->
              ExecCall(Head(L), Statements(Head(L), up)[k], TRUE)]
         \o ScriptRuns(Tail(L), up)

\* one add call per id of L
Records(L, up) == [k \in 1..Len(L) |-> AddCall(L[k], up, TRUE)]

IsExec(c) == c.call = "exec"
IsAdd(c) == c.call = "add"
Execs(t) == SelectSeq(t, IsExec)
Adds(t) == SelectSeq(t, IsAdd)

Succeeded == M.pc = "exit" /\ M.result.kind \in {"OkNone", "OkSome"}

(***************************************************************************)
(* Properties.                                                             *)
(***************************************************************************)
\* C1: with distinct directory ids whose up scripts hold statements, an
\* empty or absent history and no store failure, migrate_up returns
\* successfully, has executed the statements of every up script exactly
\* once, script after script in strictly ascending id order, and has
\* recorded exactly one up event per migration.
C1_MigrateUpRunsAllAscending ==
    (/\ M.cmd = "migrate" /\ M.pc = "exit" /\ M.seen = <<>>
     /\ DistinctIds /\ fails = 0 /\ ~BlankAmong(DirIds, TRUE))
    => LET L == Ascending(DirIds) IN
       /\ M.result.kind = (IF L = <<>> THEN "OkNone" ELSE "OkSome")
       /\ Execs(M.trace) = ScriptRuns(L, TRUE)
       /\ Adds(M.trace) = Records(L, TRUE)
       /\ rows = [k \in 1..Len(L) |-> Event(L[k], TRUE)]

\* C1 witness: three migrations that read_dir does not yield in ascending
\* order have all been applied by migrate_up on an empty history
C1_Witness ==
    /\ M.cmd = "migrate" /\ M.pc = "exit" /\ M.seen = <<>> /\ fails = 0
    /\ DistinctIds /\ Cardinality(DirIds) >= 3
    /\ ~IsDirOf(dirs[2], 1)
    /\ M.result.kind = "OkSome"
    /\ Len(Adds(M.trace)) >= 3

\* C2: with distinct directory ids and any history, a successful
\* migrate_down has executed the down scripts of exactly the directory ids
\* whose net state was 1, in strictly descending id order; it returns None
\* exactly when there is no such id, and it succeeds when no store call
\* fails and those down scripts hold statements.
C2_MigrateDownRunsAppliedDescending ==
    /\ (M.cmd = "reset" /\ Succeeded /\ DistinctIds)
       => /\ Execs(M.trace) = ScriptRuns(Descending(Applied), FALSE)
          /\ (M.result.kind = "OkNone" <=> Applied = {})
    /\ (M.cmd = "reset" /\ M.pc = "exit" /\ fails = 0 /\ ~BlankAmong(Applied, FALSE))
       => Succeeded

\* C2 witness: a successful migrate_down rolled back two applied migrations
\* and left out a directory whose net state is not 1
C2_Witness ==
    /\ M.cmd = "reset" /\ Succeeded /\ DistinctIds
    /\ Cardinality(Applied) >= 2
    /\ DirIds \ Applied /= {}
    /\ Len(Execs(M.trace)) >= 2

\* C3: with distinct directory ids and k pending migrations, a successful
\* migrate_up_n(n) with n < k has executed the up scripts of exactly the n
\* lowest pending ids in ascending order, has recorded exactly n up events,
\* one per executed id, and leaves the other k - n ids pending (net state 0,
\* the executed ones 1); it succeeds when no store call fails and the
\* pending up scripts hold statements.
C3_UpNRunsLowestN ==
    /\ (M.cmd = "do" /\ Succeeded /\ DistinctIds /\ M.n.v < Cardinality(Pending))
       => LET L == Take(Ascending(Pending), M.n.v) IN
          /\ Execs(M.trace) = ScriptRuns(L, TRUE)
          /\ Adds(M.trace) = Records(L, TRUE)
          /\ \A id \in Pending :
                Net(rows, id) = (IF \E k \in DOMAIN L : L[k] = id THEN 1 ELSE 0)
    /\ (/\ M.cmd = "do" /\ M.pc = "exit" /\ fails = 0
        /\ M.n.v < Cardinality(Pending) /\ ~BlankAmong(Pending, TRUE))
       => Succeeded

\* C3 witness: migrate_up_n(2) has run on three pending migrations
C3_Witness ==
    /\ M.cmd = "do" /\ Succeeded /\ DistinctIds
    /\ M.n.v = 2 /\ Cardinality(Pending) = 3
    /\ Len(Adds(M.trace)) = 2

\* the number of directories that were candidates for a rollback
AppliedDirs ==
    Cardinality({i \in DOMAIN dirs : \E id \in Applied : IsDirOf(dirs[i], id)})

\* C4: with distinct directory ids, a successful migrate_down_n(n) with n
\* smaller than the number of applied migrations has executed the down
\* scripts of exactly the n highest applied ids in descending order and has
\* recorded one down event for each, so that the next invocation reads net
\* state 0 for those ids and net state 1 for the other applied ids.
C4_PartialRollbackRecorded ==
    (M.cmd = "undo" /\ Succeeded /\ DistinctIds /\ M.n.v < Cardinality(Applied))
    => LET L == Take(Descending(Applied), M.n.v) IN
       /\ Execs(M.trace) = ScriptRuns(L, FALSE)
       /\ Adds(M.trace) = Records(L, FALSE)
       /\ \A id \in Applied :
             NetState(id) = (IF \E k \in DOMAIN L : L[k] = id THEN 0 ELSE 1)

\* the call in progress or just returned is a rollback that takes every candidate
FullRollback ==
    /\ M.cmd \in {"reset", "undo", "redo"} /\ ~M.up
    /\ M.n.some => M.n.v >= AppliedDirs

\* C5: a down operation whose count covers every down-candidate
\* (migrate_down, or migrate_down_n(n) with n at least the number of applied
\* migrations, one applied migration and n = 1 included) makes no add call
\* and leaves the history table as it found it, and when it succeeds it has
\* executed the down statements of every candidate.
C5_FullRollbackRecordsNothing ==
    /\ FullRollback => Adds(M.trace) = <<>> /\ rows = M.before
    /\ (FullRollback /\ DistinctIds /\ M.pc \in {"exit", "redo_up"}
           /\ M.result.kind \in {"OkNone", "OkSome"})
       => Execs(M.trace) = ScriptRuns(Descending(Applied), FALSE)

\* C5 witness: migrate_down_n(1) has rolled back the only applied migration
C5_Witness ==
    /\ M.cmd = "undo" /\ M.n.v = 1 /\ Succeeded
    /\ Cardinality(Applied) = 1 /\ AppliedDirs = 1
    /\ Len(Execs(M.trace)) = 1
    /\ rows /= <<>>

\* C6: a successful call that executed statements and returns Some(id)
\* returns the id of the last migration whose statements it executed.
C6_ReturnsLastExecuted ==
    (/\ M.pc \in {"exit", "redo_up"} /\ M.result.kind = "OkSome"
     /\ Execs(M.trace) /= <<>>)
    => M.result.id = Last(Execs(M.trace)).id

\* C7: migrate_up_n(0) on a directory with a pending migration executes no
\* statement, records no event and returns Ok(None).
C7_UpZeroReturnsNone ==
    (/\ M.cmd = "do" /\ M.n.v = 0 /\ M.pc = "exit" /\ fails = 0
     /\ Pending /= {} /\ ~BlankAmong(Pending, TRUE))
    => M.result = OkNone /\ M.trace = <<>> /\ rows = M.before

\* C8: in every run, an add call comes right after the successful execution
\* of every statement of its candidate's script, in file order, and what
\* follows it is the first statement of the next candidate; it records the
\* direction of the operation, and between two add calls lies exactly one
\* script (at most one event per executed candidate).
C8_AddFollowsWholeScript ==
    \A j \in DOMAIN M.trace :
        IsAdd(M.trace[j]) =>
            LET a  == M.trace[j]
                st == Statements(a.id, M.up)
                n  == Len(st)
            IN  /\ j > n
                /\ \A k \in 1..n : M.trace[j - n + k - 1] = ExecCall(a.id, st[k], TRUE)
                /\ j - n > 1 => IsAdd(M.trace[j - n - 1])
                /\ a.up = M.up
                /\ a.ok => \E i \in DOMAIN rows : rows[i] = Event(a.id, M.up)
                /\ j < Len(M.trace) =>
                      /\ IsExec(M.trace[j + 1])
                      /\ M.trace[j + 1].q = Statements(M.trace[j + 1].id, M.up)[1]

\* C8 witness: two candidates have been executed and recorded in one call
C8_Witness ==
    /\ Len(Adds(M.trace)) >= 2
    /\ Len(Execs(M.trace)) >= 4

\* the ids whose scripts the call was to run: the eligible directory ids in
\* the order of the direction, cut to the count
Eligibles == IF M.up THEN Pending ELSE Applied
Planned ==
    LET all == IF M.up THEN Ascending(Pending) ELSE Descending(Applied)
    IN  IF M.n.some THEN Take(all, M.n.v) ELSE all

\* the calls of a run without failure over the ids of L
RECURSIVE FullRun(_, _, _)
FullRun(L, up, recorded) ==
    IF L = <<>> THEN <<>>
    ELSE ScriptRuns(<<Head(L)>>, up)
         \o (IF recorded THEN <<AddCall(Head(L), up, TRUE)>> ELSE <<>>)
         \o FullRun(Tail(L), up, recorded)

IsPrefix(s, t) == Len(s) <= Len(t) /\ s = SubSeq(t, 1, Len(s))

\* the events the successful add calls of t left for id, on top of r
RecordedNet(r, t, id) ==
    LET mine == {j \in DOMAIN t : IsAdd(t[j]) /\ t[j].ok /\ t[j].id = id}
        step == IF M.up THEN 1 ELSE -1
    IN  IF mine = {} THEN Net(r, id)
        ELSE IF storeKind = "log" THEN Net(r, id) + step * Cardinality(mine)
        ELSE step

\* C9: when exec or add fails, the call returns a Store error at once: the
\* failed call is the last call on the store, the calls made up to it are
\* the beginning of the planned run (nothing is retried, no compensating
\* statement is executed), no event is recorded for the failing candidate
\* and the events recorded for the earlier candidates remain.
C9_FailureAbortsAtOnce ==
    \A j \in DOMAIN M.trace :
        ~M.trace[j].ok =>
            /\ j = Len(M.trace)
            /\ M.pc = "exit"
            /\ M.result = Failure("ErrStore", <<>>)
            /\ DistinctIds =>
                  /\ IsPrefix([M.trace EXCEPT ![j].ok = TRUE],
                              FullRun(Planned, M.up,
                                      M.up \/ Len(Planned) < Cardinality(Eligibles)))
                  /\ \A k \in 1..(j - 1) : M.trace[k].ok
                  /\ \A k \in 1..(j - 1) : IsAdd(M.trace[k]) => M.trace[k].id /= M.trace[j].id
            /\ \A id \in Ids : Net(rows, id) = RecordedNet(M.before, M.trace, id)

\* C9 witness: the second candidate's statement fails after the first
\* candidate was executed and recorded
C9_Witness ==
    /\ M.trace /= <<>>
    /\ IsExec(Last(M.trace)) /\ ~Last(M.trace).ok
    /\ Len(Adds(M.trace)) >= 1
    /\ rows /= M.before

\* C10: when the script of an eligible candidate of the requested direction
\* holds no statement and get_all succeeded, the call fails with
\* ParseMigrationFile, naming a directory with such a script, before any
\* exec or add call, whatever the count and wherever the candidate stands
\* in the execution order.
C10_BlankScriptFailsBeforeExecution ==
    (M.cmd /= "none" /\ fails = 0 /\ BlankAmong(Eligibles, M.up))
    => /\ M.pc = "exit"
       /\ M.result.kind = "ErrParse"
       /\ \E i \in DOMAIN dirs :
             /\ dirs[i].name = M.result.path
             /\ IsBlankFile(Script(dirs[i], M.up))
       /\ M.trace = <<>>
       /\ rows = M.before

\* C10 witness: migrate_up_n(1) failed on three pending migrations of which
\* only the last to run has a script without statement
C10_Witness ==
    /\ M.cmd = "do" /\ M.n.v = 1 /\ fails = 0 /\ DistinctIds
    /\ Cardinality(Pending) = 3
    /\ BlankAmong({Last(Ascending(Pending))}, TRUE)
    /\ ~BlankAmong({Head(Ascending(Pending))}, TRUE)
    /\ M.result.kind = "ErrParse"

\* C11: when get_all succeeds and no directory id is eligible in the
\* direction of the call (up: none with net state 0, down: none with net
\* state 1), the call returns Ok(None), not an error, has made no exec and
\* no add call and leaves the history table as it found it; the second
\* call of redo included.
C11_NothingEligibleReturnsNone ==
    (M.cmd /= "none" /\ fails = 0 /\ Eligibles = {})
    => /\ M.pc = "exit"
       /\ M.result = OkNone
       /\ M.trace = <<>>
       /\ rows = M.before

\* C11 witness: migrate_down found directories and history rows but no
\* directory id of net state 1 and returned Ok(None)
C11_Witness ==
    /\ M.cmd = "reset" /\ fails = 0
    /\ DirIds /= {} /\ M.seen /= <<>> /\ Applied = {}
    /\ M.result = OkNone

\* C12: redo starts with migrate_down_n(1); it goes on to migrate_up_n(1)
\* when that call returned Some(id) and only then: a redo that is in its up
\* call has a rollback behind it that returned Some(id) after executing a
\* down script, and a redo whose rollback returned anything else has ended
\* in the rollback call.  When the rollback finds nothing (Ok(None)) redo
\* ends with no exec and no add call and the history table untouched.
C12_RedoUpOnlyAfterRollback ==
    M.cmd = "redo" =>
        /\ M.n = Some(1)
        /\ M.up => /\ M.first.result.kind = "OkSome"
                   /\ Execs(M.first.trace) /= <<>>
                   /\ \A j \in DOMAIN M.first.trace :
                         /\ M.first.trace[j].ok
                         /\ IsExec(M.first.trace[j]) =>
                               M.first.trace[j].q \in {DownStatements(id)[1] : id \in Ids}
                         /\ IsAdd(M.first.trace[j]) => ~M.first.trace[j].up
        /\ (~M.up /\ M.result.kind = "OkSome") => M.pc = "redo_up"
        /\ (~M.up /\ M.result.kind = "none") => M.pc = "run" /\ M.first.result = NoResult
        /\ (~M.up /\ M.result.kind \notin {"none", "OkSome"})
              => M.pc = "exit" /\ M.first.result = NoResult
        /\ (~M.up /\ M.result = OkNone) => M.trace = <<>> /\ rows = M.before

\* C12 witness: redo has rolled one migration back and has then executed
\* an up script in its second call
C12_Witness ==
    /\ M.cmd = "redo" /\ M.up /\ M.pc = "exit"
    /\ M.first.result.kind = "OkSome"
    /\ M.result.kind = "OkSome"
    /\ Execs(M.trace) /= <<>>

\* the rows of the history table when the command started
StartRows == IF M.cmd = "redo" /\ M.up THEN M.first.before ELSE M.before
AppliedAtStart == {id \in DirIds : Net(StartRows, id) = 1}
Highest(S) == CHOOSE x \in S : \A y \in S : x >= y

\* C13: a redo that runs with distinct directory ids, scripts that hold
\* statements, at least one applied migration and no store failure rolls
\* back the highest applied id m and then applies m again: its first call
\* executes the down script of m, its second call the up script of m, and
\* the directory ids of net state 1 are afterwards the same as before.
C13_RedoReappliesSameMigration ==
    (/\ M.cmd = "redo" /\ M.pc = "exit" /\ fails = 0 /\ DistinctIds
     /\ ~BlankAmong(DirIds, TRUE) /\ ~BlankAmong(DirIds, FALSE)
     /\ AppliedAtStart /= {})
    => LET m == Highest(AppliedAtStart) IN
       /\ M.up
       /\ Execs(M.first.trace) = ScriptRuns(<<m>>, FALSE)
       /\ Execs(M.trace) = ScriptRuns(<<m>>, TRUE)
       /\ {id \in DirIds : NetState(id) = 1} = AppliedAtStart

\* the last event the rows r hold for id is a rollback: in runs that start
\* from an empty history, the engine applied id and rolled it back with a
\* recorded down event, and has not applied it since
RolledBack(r, id) ==
    \E i \in DOMAIN r :
        /\ r[i] = Event(id, FALSE)
        /\ \A j \in DOMAIN r : j > i => r[j].id /= id

\* C14: in runs of the engine from an empty history, a migration that the
\* engine applied and then rolled back with a recorded down event (one up
\* event and one down event, net state 0) is an up-candidate again: a
\* successful migrate_up executes its up script and leaves it applied.
C14_RolledBackIsAppliedAgain ==
    (M.cmd = "migrate" /\ Succeeded)
    => \A id \in DirIds :
          RolledBack(M.before, id) =>
              /\ Execs(SelectSeq(M.trace, LAMBDA c : c.id = id)) = ScriptRuns(<<id>>, TRUE)
              /\ NetState(id) = 1

\* C15: every successful add on ScyllaStore leaves one more row in the
\* history table: get_all then returns the events it returned before,
\* followed by the added event, and the net state of the added id moves by
\* one (up after nothing: 1, down after up: 0).
C15_StoreKeepsEveryEvent ==
    [][(storeKind = "scylla" /\ rows' /= rows)
       => \E e \in Events :
             /\ get_all(storeKind, rows').rows = Append(get_all(storeKind, rows).rows, e)
             /\ NetState(e.id)' = NetState(e.id) + (IF e.up THEN 1 ELSE -1)]_vars

\* C16: in runs of one engine that start from an empty history, over a
\* directory with distinct ids and an append-only store, every id has net
\* state 0 or 1 after any sequence of commands (migrate, reset, do -n,
\* undo -n, redo), calls aborted by a store failure included, and at every
\* point in between.
C16_NetStateStaysZeroOrOne ==
    storeKind = "log" => \A id \in Ids : NetState(id) \in {0, 1}

\* C16 witness: after three commands on the append-only store, one of them
\* hit by a store failure, a migration has been applied, rolled back and
\* applied again
C16_Witness ==
    /\ storeKind = "log" /\ ops = MaxOps /\ fails >= 1 /\ DistinctIds
    /\ \E id \in Ids :
          Cardinality({i \in DOMAIN rows : rows[i].id = id}) >= 3

\* the script the parser runs read, and what it holds by the rules of the
\* script format: the trimmed lines that are neither blank nor comments
ScriptLines == dirs[1].up.lines
ContentLines(lines) ==
    SelectSeq([i \in DOMAIN lines |-> Trim(lines[i])],
              LAMBDA t : ~IsCommentOrBlank(t))
EndsStatement(t) == Last(t) = ";"

\* the content lines joined without separator, cut after every line that
\* ends with ';' (cur is the statement under construction)
RECURSIVE Joined(_, _)
Joined(content, cur) ==
    IF content = <<>> THEN (IF cur = <<>> THEN <<>> ELSE <<cur>>)
    ELSE IF EndsStatement(Head(content))
         THEN <<cur \o Head(content)>> \o Joined(Tail(content), <<>>)
         ELSE Joined(Tail(content), cur \o Head(content))

\* C17: for every script with at least one content line, the statements the
\* parser hands to the engine are the trimmed content lines in file order,
\* joined without separator and cut exactly after each line ending in ';'
\* (a last statement without ';' is kept as it is): their number is the
\* number of content lines ending in ';', plus one if the last content line
\* does not end in ';', and none is empty.
C17_StatementsAreJoinedContentLines ==
    LET content == ContentLines(ScriptLines) IN
    (M.cmd = "migrate" /\ content /= <<>>)
    => /\ M.cands /= <<>>
       /\ LET queries == M.cands[1].queries IN
          /\ queries = Joined(content, <<>>)
          /\ Len(queries) =
                Cardinality({i \in DOMAIN content : EndsStatement(content[i])})
                + (IF EndsStatement(Last(content)) THEN 0 ELSE 1)
          /\ \A k \in DOMAIN queries : queries[k] /= <<>>

\* C18: a script with no content line (comment lines and blank lines only,
\* or no line at all) makes the call fail with ParseMigrationFile naming
\* its path, before any call on the store; every other script that can be
\* read gives the engine a non-empty sequence of statements.
C18_NoStatementIsParseError ==
    M.cmd = "migrate" =>
        IF ContentLines(ScriptLines) = <<>>
        THEN /\ M.pc = "exit"
             /\ M.result = Failure("ErrParse", dirs[1].name)
             /\ M.trace = <<>>
        ELSE /\ M.result.kind \in {"none", "OkSome"}
             /\ M.cands /= <<>>
             /\ M.cands[1].queries /= <<>>

\* every order of the rows r
Shuffles(r) == {[i \in DOMAIN r |-> r[p[i]]] : p \in Permutations(DOMAIN r)}
reconcile(r) == get_migration_history(GetAllSome(r))

\* C19: the counters a call reconciles from the rows it read depend on the
\* number of events per id only: for every way to cut the rows into A
\* followed by B they are the sum, id by id, of the counters of A and of B
\* (0 for an id without entry); every permutation of the rows reconciles
\* to the same mapping; and the counter of an id is its number of up rows
\* minus its number of down rows.
C19_ReconcilerCountsEvents ==
    M.cmd /= "none" =>
        /\ \A k \in 0..Len(M.seen) : \A id \in Ids :
              Counter(M.history, id) =
                  Counter(reconcile(SubSeq(M.seen, 1, k)), id)
                  + Counter(reconcile(SubSeq(M.seen, k + 1, Len(M.seen))), id)
        /\ \A r \in Shuffles(M.seen) : reconcile(r) = M.history
        /\ \A id \in Ids : Counter(M.history, id) = Net(M.seen, id)
        /\ DOMAIN M.history = {M.seen[i].id : i \in DOMAIN M.seen}

\* C19 witness: a call reconciled MaxEvents rows in which an id has a down
\* row before an up row and another id has rows too
C19_Witness ==
    /\ M.cmd /= "none" /\ Len(M.seen) = MaxEvents
    /\ \E i, j \in DOMAIN M.seen :
          /\ i < j /\ M.seen[i].id = M.seen[j].id
          /\ ~M.seen[i].up /\ M.seen[j].up
          /\ M.history[M.seen[i].id] = 0
    /\ Cardinality(DOMAIN M.history) >= 2

\* the ids whose net state in the rows r is neither 0 nor 1
OutOfStep(r) == {id \in Ids : Net(r, id) \notin {0, 1}}
About(t, id) == SelectSeq(t, LAMBDA c : c.id = id)

\* C20: an id whose net state is neither 0 nor 1 when a call starts (-1
\* after a lone down row, 2 after two up rows) is no candidate of the call,
\* whatever its direction and count: the call makes no exec and no add call
\* for the id and leaves its net state as it was; so it is for both calls
\* of redo.
C20_OutOfStepIdsAreLeftAlone ==
    /\ \A id \in OutOfStep(M.before) :
          /\ About(M.trace, id) = <<>>
          /\ \A k \in DOMAIN M.cands : M.cands[k].id /= id
          /\ Net(rows, id) = Net(M.before, id)
    /\ (M.cmd = "redo" /\ M.first.result /= NoResult)
       => \A id \in OutOfStep(M.first.before) : About(M.first.trace, id) = <<>>

\* C20 witness: a successful call executed and recorded other migrations
\* and left alone a directory whose id has net state -1 or 2
C20_Witness ==
    /\ Succeeded /\ Adds(M.trace) /= <<>>
    /\ OutOfStep(M.before) \cap DirIds /= {}
    /\ OutOfStep(rows) = OutOfStep(M.before)

\* get_all failed: the call ended with a Store error before any exec or add
GetAllFailed == M.result = Failure("ErrStore", <<>>) /\ M.trace = <<>>
MigrationDirs == {i \in DOMAIN dirs : \E id \in Ids : IsDirOf(dirs[i], id)}

\* C21: a call whose get_all reports no history (None, as ScyllaStore does
\* for a table without row) goes on exactly as a call whose get_all returns
\* an empty list of rows: no counter is set, so every directory id has net
\* state 0; an up call takes every migration directory as candidate, a down
\* call none and returns Ok(None) without a call on the store; no error
\* comes of the absent history.
C21_AbsentHistoryIsEmptyHistory ==
    (M.cmd /= "none" /\ M.before = <<>> /\ ~GetAllFailed)
    => /\ M.seen = <<>> /\ M.history = EmptyMap
       /\ \A id \in DirIds : Counter(M.history, id) = 0
       /\ LET start == [Fresh EXCEPT !.cmd = M.cmd] IN
          migrate_n(start, M.up, M.n, GetAllNone)
              = migrate_n(start, M.up, M.n, GetAllSome(<<>>))
       /\ (M.up /\ ~BlankAmong(DirIds, TRUE))
          => /\ Len(M.cands) = Cardinality(MigrationDirs)
             /\ {M.cands[k].id : k \in DOMAIN M.cands} = DirIds
             /\ M.result.kind \in {"none", "OkSome", "OkNone", "ErrStore"}
             /\ M.result.kind = "OkNone" <=> DirIds = {}
       /\ ~M.up => M.result = OkNone /\ M.trace = <<>>

\* C21 witness: migrate_up on ScyllaStore, whose get_all answered None for
\* the empty table, has applied two or more migrations
C21_Witness ==
    /\ storeKind = "scylla" /\ get_all(storeKind, M.before) = GetAllNone
    /\ M.cmd = "migrate" /\ Succeeded
    /\ Len(Adds(M.trace)) >= 2

\* the ids that two or more migration directories carry
Colliding ==
    {id \in Ids : \E i, j \in DOMAIN dirs :
        i /= j /\ IsDirOf(dirs[i], id) /\ IsDirOf(dirs[j], id)}

\* C22: when two directories carry the same id and the id has net state 0,
\* migrate_up without store failure succeeds, executes the up scripts of
\* both directories and records two up events for the id; the next
\* invocation reads net state 2 for it, so that it is a candidate neither
\* for up nor for down.
C22_CollidingIdsAreAppliedTwice ==
    (/\ M.cmd = "migrate" /\ M.pc = "exit" /\ fails = 0
     /\ ~BlankAmong(DirIds, TRUE))
    => \A id \in Colliding :
          Net(M.before, id) = 0 =>
              /\ M.result.kind = "OkSome"
              /\ Execs(About(M.trace, id)) = ScriptRuns(<<id, id>>, TRUE)
              /\ Adds(About(M.trace, id)) = Records(<<id, id>>, TRUE)
              /\ NetState(id) = 2
              /\ ~Eligible(NetState(id), TRUE) /\ ~Eligible(NetState(id), FALSE)

\* both engines ran migrate_up to its end, and both read the history before
\* either had recorded anything
BothReadFirst ==
    \A p \in Procs :
        /\ mig[p].cmd = "migrate" /\ mig[p].pc = "exit"
        /\ mig[p].before = <<>>

\* C23: nothing keeps two engines apart: when both run migrate_up and both
\* read the history before either records, both execute the up statements
\* of every migration and both record it, so that two up events stand for
\* each id and the next invocation reads net state 2.
C23_RacingEnginesApplyTwice ==
    BothReadFirst
    => \A id \in DirIds :
          /\ \A p \in Procs :
                /\ Execs(About(mig[p].trace, id)) = ScriptRuns(<<id>>, TRUE)
                /\ Adds(About(mig[p].trace, id)) = <<AddCall(id, TRUE, TRUE)>>
          /\ Cardinality({i \in DOMAIN rows : rows[i] = Event(id, TRUE)}) = 2
          /\ NetState(id) = 2

\* C24: parsing ends in statements, in ParseMigrationFile or in an I/O
\* error and in nothing else: for every line that is not blank once
\* trimmed, a line of a single character (';', ')') included, the comment
\* check answers yes or no, and it answers yes exactly for a line whose
\* first two characters are -- or //.
C24_CommentCheckNeverPanics ==
    M.cmd = "migrate" =>
        /\ M.result.kind \in {"none", "OkSome", "ErrParse", "ErrIo"}
        /\ \A i \in DOMAIN ScriptLines :
              LET t == Trim(ScriptLines[i]) IN
              t /= <<>> =>
                  is_cql_comment_line(t) =
                      (IF IsCommentOrBlank(t) THEN "yes" ELSE "no")

\* in the runs of undo -n 1 no up row is added and, whatever the store, an
\* id keeps a row once it has one: the directory ids with a row are the
\* migrations that were applied when the first call started
AppliedAtFirst == {id \in DirIds : \E i \in DOMAIN rows : rows[i].id = id}

\* C25: with k >= 1 applied migrations and no failure, the c-th call of
\* migrate_down_n(1) in a row executes, for c <= k, the down script of the
\* c-th highest applied id and nothing else, and for c > k it returns
\* Ok(None) without executing any statement.
C25_RollbackOneByOneCompletes ==
    (M.cmd = "undo" /\ M.pc = "exit" /\ AppliedAtFirst /= {})
    => LET D == Descending(AppliedAtFirst)
           c == ops + 1
       IN  IF c <= Len(D)
           THEN /\ M.result.kind = "OkSome"
                /\ Execs(M.trace) = ScriptRuns(<<D[c]>>, FALSE)
           ELSE M.result = OkNone /\ M.trace = <<>>

\* a series of up calls: the calls it made on the store so far, the number
\* of migrations it asked for so far (migrate_up asks for all), the rows
\* the table held before its first call and the ids pending then
SeriesCalls == M.past.trace \o M.trace
SeriesAsked == M.past.asked + (IF M.n.some THEN M.n.v ELSE Len(dirs))
RowsAtFirst == SubSeq(rows, 1, Len(rows) - Len(Adds(SeriesCalls)))
PendingAtFirst == {id \in DirIds : Net(RowsAtFirst, id) = 0}

\* C26: with the append-only store, distinct directory ids and no failure,
\* what a series of up calls executes and records depends on the sum of
\* its counts only: after calls that asked for t migrations in all, the
\* statements executed and the events added are those of the t lowest ids
\* that were pending at first, in ascending order, one script and one event
\* each.  So migrate_up_n(a) then migrate_up_n(b) does what migrate_up_n(a
\* + b) does, and migrate_up_n(1) repeated until it returns Ok(None), which
\* it does exactly when nothing is pending any more, does what migrate_up
\* does.
C26_UpCallsCompose ==
    (M.cmd \in {"do", "migrate"} /\ M.pc = "exit")
    => LET all == Ascending(PendingAtFirst)
           L   == Take(all, SeriesAsked)
       IN  /\ SeriesCalls = FullRun(L, TRUE, TRUE)
           /\ rows = RowsAtFirst \o [k \in 1..Len(L) |-> Event(L[k], TRUE)]
           /\ M.result.kind \in {"OkNone", "OkSome"}
           /\ M.result = OkNone <=> M.past.asked >= Len(all)

\* C26 witness: migrate_up_n(1) then migrate_up_n(2) have applied three
\* pending migrations between them, the second call having ended
C26_Witness ==
    /\ M.cmd = "do" /\ M.pc = "exit" /\ ops = 1
    /\ M.past.asked = 1 /\ M.n.v = 2
    /\ Cardinality(PendingAtFirst) = 3
    /\ Len(Adds(M.past.trace)) = 1 /\ Len(Adds(M.trace)) = 2

====
